---- MODULE Spec2Model ----
(***************************************************************************)
(* The event buffering and batch-flush pipeline of the ingestion API:      *)
(* EventIngestionService (apps/api/src/services/eventIngestion.service.ts), *)
(* its caller EventsController.ingestEvent and the shutdown path           *)
(* gracefulShutdown (apps/api/src/utils/shutdown.ts).                       *)
(*                                                                         *)
(* Node.js runs the code on one event loop.  Every action below is one     *)
(* macrotask (an HTTP request, a timer callback, an I/O completion) run to *)
(* its first real suspension point.  A continuation that is only a queued  *)
(* microtask (the code after `await this.flush()` once flush() has         *)
(* settled, the code after `await forceFlush()`) is a step of its own, and *)
(* no macrotask is taken while one is queued (MicrotasksDrained).          *)
(***************************************************************************)
EXTENDS Integers, Sequences, FiniteSets, TLC

\* ------------------------------------------------------------------ bounds
MaxEvents == 5      \* events ever passed to addEvent (event ids 1..MaxEvents)
MaxFail   == 2      \* bulkInsert calls that reject before storage succeeds for good
MaxReq    == 2      \* events in the body of one POST /events request

\* ------------------------------------------- configuration of the service
\* The source values are 500 and 5000; they are scaled down, keeping
\* maxBufferSize < emergencyThreshold, so that TLC can reach both.
maxBufferSize      == 2     \* eventIngestion.service.ts:29
emergencyThreshold == 3     \* eventIngestion.service.ts:31
\* The timer interval, 1000 ms in the source, in ticks of the model's clock.
flushIntervalMs    == 2     \* eventIngestion.service.ts:30
\* The isFlushingInProgress flag is a ceiling of one flush in flight.
maxConcurrentFlushes == 1   \* eventIngestion.service.ts:25

\* The admission threshold read by canAcceptEvent(); the service under
\* src/ declares a single capacity limit, emergencyThreshold.
backpressureThreshold == emergencyThreshold

FFCallers == {1, 2}         \* callers of forceFlush: SIGTERM = 1, SIGINT = 2
Background == 0             \* owner of a fire-and-forget flush
Running == -1               \* exitCode while the process is alive

VARIABLES
    buffer,                 \* this.buffer: event ids, oldest first
    flushTimer,             \* this.flushTimer: "null", "pending", or "fired"
                            \* (a stale handle whose callback already ran)
    timerLeft,              \* ticks until the pending timer expires (0 when no
                            \* timer is pending)
    isFlushingInProgress,   \* the mutex flag
    flights,                \* flush() invocations suspended at `await bulkInsert(batch)`:
                            \* [batch, owner] plus the history fields rest (the
                            \* buffer left behind by the splice) and since (the
                            \* events appended while the call is outstanding)
    accepted,               \* the batches of the bulkInsert calls that resolved,
                            \* in completion order
    failsLeft,              \* rejections storage may still produce
    db,                     \* the events collection: for each eventId the number
                            \* of documents stored with it
    nextId,                 \* id of the next event passed to addEvent
    dropped,                \* events addEvent returned on without buffering
    idle,                   \* history: ticks since the most recent activity, the
                            \* last addEvent call or flush completion (counted up
                            \* to flushIntervalMs + 1)
    age,                    \* history: for each buffered event the ticks since it
                            \* entered the buffer (counted up to flushIntervalMs
                            \* + 1); 0 for every event not in the buffer
    acked,                  \* eventIds returned in a 202 response
    ret,                    \* what the call made in this step returned: "true" or
                            \* "false" (canAcceptEvent), "202", "400" or "429"
                            \* (ingestEvent), "none" for any other step
    req,                    \* the POST /events request handled in this step, where
                            \* the step records it: for each event of the body,
                            \* whether validation is to refuse it (<<>> if not)
    stats,                  \* <<>>, or <<the snapshot getStats() returned in this
                            \* step>>
    settled,                \* <<>>, or the one bulkInsert call that settled in
                            \* this step: <<[flight, ok, error, written, dups, present]>>,
                            \* present being the events of the batch that were in
                            \* the collection before the call
    ffpc,                   \* position of each forceFlush call
    ffEntry,                \* history of each forceFlush call: need, the number
                            \* of batches the buffer held when it was called, and
                            \* owed, need minus the bulkInsert calls made since
    sdpc,                   \* position of each gracefulShutdown call
    listening,              \* the HTTP server accepts new connections
    dbState,                \* mongoose.connection: "connected", "disconnecting",
                            \* "disconnected"
    exitCode                \* Running, or the code given to process.exit

svcVars == <<buffer, flushTimer, timerLeft, isFlushingInProgress, flights, dropped,
            idle, age>>
stoVars == <<accepted, failsLeft, db>>
reqVars == <<nextId, acked>>
obsVars == <<ret, settled, req, stats>>
ffVars  == <<ffpc, ffEntry>>
sdVars  == <<sdpc, listening, dbState, exitCode>>
vars    == <<svcVars, stoVars, reqVars, obsVars, ffVars, sdVars>>

\* ---------------------------------------------------------------- helpers
Min(a, b) == IF a < b THEN a ELSE b

Range(s) == {s[k] : k \in DOMAIN s}

\* Array.prototype.splice(0, n): the removed head and what stays.
SpliceRemoved(s, n) == SubSeq(s, 1, Min(n, Len(s)))
SpliceRest(s, n)    == SubSeq(s, Min(n, Len(s)) + 1, Len(s))

RemoveAt(s, k) == SubSeq(s, 1, k - 1) \o SubSeq(s, k + 1, Len(s))

RECURSIVE Flatten(_)
Flatten(ss) == IF ss = <<>> THEN <<>> ELSE Head(ss) \o Flatten(Tail(ss))

\* ceil(n / maxBufferSize): the batches n buffered events make.
Batches(n) == (n + maxBufferSize - 1) \div maxBufferSize

Monus(a, b) == IF a > b THEN a - b ELSE 0

\* The mutable fields of the service, as one value.
Svc == [buffer |-> buffer, flushTimer |-> flushTimer, timerLeft |-> timerLeft,
        idle |-> idle, age |-> age,
        isFlushingInProgress |-> isFlushingInProgress,
        flights |-> flights, dropped |-> dropped]

SetSvc(s) ==
    /\ buffer' = s.buffer
    /\ flushTimer' = s.flushTimer
    /\ timerLeft' = s.timerLeft
    /\ idle' = s.idle
    /\ age' = s.age
    /\ isFlushingInProgress' = s.isFlushingInProgress
    /\ flights' = s.flights
    /\ dropped' = s.dropped

\* History: the bulkInsert calls started in this step, and their count
\* taken off what every forceFlush call is still owed.  (Read after the
\* conjunct that sets flights'.)
NewCalls == Monus(Len(flights'), Len(flights))

CountCalls == [i \in FFCallers |->
                 [ffEntry[i] EXCEPT !.owed = Monus(@, NewCalls)]]

\* ------------------------------------------------- EventIngestionService
\* resetFlushTimer(): clear the handle, arm a new timer.
resetFlushTimerClearOnly(s) == [s EXCEPT !.flushTimer = "null", !.timerLeft = 0]

resetFlushTimer(s) == [s EXCEPT !.flushTimer = "pending", !.timerLeft = flushIntervalMs]

\* flush(), up to its suspension at `await this.repository.bulkInsert(batch)`.
flushNoMutex(s, owner) ==
    IF Len(s.buffer) = 0 THEN s
    ELSE [s EXCEPT
            !.buffer = SpliceRest(s.buffer, maxBufferSize),
            !.flights = Append(@, [batch |-> SpliceRemoved(s.buffer, maxBufferSize),
                                   owner |-> owner,
                                   rest  |-> SpliceRest(s.buffer, maxBufferSize),
                                   since |-> <<>>])]

flushNoSplice(s, owner) ==
    IF s.isFlushingInProgress THEN s
    ELSE IF Len(s.buffer) = 0 THEN s
    ELSE [s EXCEPT
            !.isFlushingInProgress = TRUE,
            !.flights = Append(@, [batch |-> SpliceRemoved(s.buffer, maxBufferSize),
                                   owner |-> owner,
                                   rest  |-> SpliceRest(s.buffer, maxBufferSize),
                                   since |-> <<>>])]

flushNoAcquire(s, owner) ==
    IF s.isFlushingInProgress THEN s
    ELSE IF Len(s.buffer) = 0 THEN s
    ELSE [s EXCEPT
            !.buffer = SpliceRest(s.buffer, maxBufferSize),
            !.flights = Append(@, [batch |-> SpliceRemoved(s.buffer, maxBufferSize),
                                   owner |-> owner,
                                   rest  |-> SpliceRest(s.buffer, maxBufferSize),
                                   since |-> <<>>])]

flushWholeBuffer(s, owner) ==
    IF s.isFlushingInProgress THEN s
    ELSE IF Len(s.buffer) = 0 THEN s
    ELSE [s EXCEPT
            !.isFlushingInProgress = TRUE,
            !.buffer = <<>>,
            !.flights = Append(@, [batch |-> s.buffer,
                                   owner |-> owner,
                                   rest  |-> <<>>,
                                   since |-> <<>>])]

flushFromTail(s, owner) ==
    IF s.isFlushingInProgress THEN s
    ELSE IF Len(s.buffer) = 0 THEN s
    ELSE LET n == Min(maxBufferSize, Len(s.buffer))
         IN  [s EXCEPT
                !.isFlushingInProgress = TRUE,
                !.buffer = SubSeq(s.buffer, 1, Len(s.buffer) - n),
                !.flights = Append(@, [batch |-> SubSeq(s.buffer, Len(s.buffer) - n + 1,
                                                        Len(s.buffer)),
                                       owner |-> owner,
                                       rest  |-> SubSeq(s.buffer, 1, Len(s.buffer) - n),
                                       since |-> <<>>])]

flush(s, owner) ==
    IF s.isFlushingInProgress THEN s
    ELSE IF Len(s.buffer) = 0 THEN s
    ELSE [s EXCEPT
            !.isFlushingInProgress = TRUE,
            !.buffer = SpliceRest(s.buffer, maxBufferSize),
            !.age = [e \in DOMAIN @ |->
                       IF e \in Range(SpliceRemoved(s.buffer, maxBufferSize))
                       THEN 0 ELSE @[e]],
            !.flights = Append(@, [batch |-> SpliceRemoved(s.buffer, maxBufferSize),
                                   owner |-> owner,
                                   rest  |-> SpliceRest(s.buffer, maxBufferSize),
                                   since |-> <<>>])]

\* Whether that call of flush() went on to call bulkInsert.
flushProceeds(s) == ~s.isFlushingInProgress /\ Len(s.buffer) > 0

\* The catch block of flush(): the failed batch goes back to the front.
requeueDiscards(buf, batch) == buf

requeueAtTail(buf, batch) == buf \o batch

requeue(buf, batch) == batch \o buf

\* addEvent(event).
addEventNoSizeTrigger(s, e) ==
    IF Len(s.buffer) >= emergencyThreshold
    THEN [s EXCEPT !.dropped = @ \cup {e}, !.idle = 0]
    ELSE resetFlushTimer(
             [s EXCEPT
                !.buffer = Append(@, e),
                !.idle = 0,
                !.flights = [k \in DOMAIN @ |->
                               [@[k] EXCEPT !.since = Append(@, e)]]])

addEventUnshift(s, e) ==
    IF Len(s.buffer) >= emergencyThreshold
    THEN [s EXCEPT !.dropped = @ \cup {e}, !.idle = 0]
    ELSE LET pushed == [s EXCEPT
                          !.buffer = <<e>> \o @,
                          !.idle = 0,
                          !.flights = [k \in DOMAIN @ |->
                                         [@[k] EXCEPT !.since = Append(@, e)]]]
             flushed == IF Len(pushed.buffer) >= maxBufferSize
                           /\ ~pushed.isFlushingInProgress
                        THEN flush(pushed, Background)
                        ELSE pushed
         IN  resetFlushTimer(flushed)

addEventUnbounded(s, e) ==
    LET pushed == [s EXCEPT
                      !.buffer = Append(@, e),
                      !.idle = 0,
                      !.flights = [k \in DOMAIN @ |->
                                     [@[k] EXCEPT !.since = Append(@, e)]]]
        flushed == IF Len(pushed.buffer) >= maxBufferSize
                      /\ ~pushed.isFlushingInProgress
                   THEN flush(pushed, Background)
                   ELSE pushed
    IN  resetFlushTimer(flushed)

addEvent(s, e) ==
    IF Len(s.buffer) >= emergencyThreshold
    THEN [s EXCEPT !.dropped = @ \cup {e}, !.idle = 0]
    ELSE LET pushed == [s EXCEPT
                          !.buffer = Append(@, e),
                          !.idle = 0,
                          !.flights = [k \in DOMAIN @ |->
                                         [@[k] EXCEPT !.since = Append(@, e)]]]
             flushed == IF Len(pushed.buffer) >= maxBufferSize
                           /\ ~pushed.isFlushingInProgress
                        THEN flush(pushed, Background)
                        ELSE pushed
         IN  resetFlushTimer(flushed)

\* canAcceptEvent(): called by the controller and the tests; its body is
\* not part of the service source, it is taken from the design document.
canAcceptEventOffByOne(buf) == Len(buf) <= backpressureThreshold

canAcceptEvent(buf) == Len(buf) < backpressureThreshold

\* ------------------------------------------------------- EventRepository
\* What Event.insertMany(documents, {ordered: false}) throws.  name and code
\* are the two fields the catch block of bulkInsert reads; code is that of
\* the first write error, 0 standing for any code that is not E11000.
E11000 == 11000
NoError == [name |-> "none", code |-> 0]
MongoNetworkError == [name |-> "MongoNetworkError", code |-> 0]
MongoBulkWriteError(code) == [name |-> "MongoBulkWriteError", code |-> code]

\* _id: event.eventId, under the unique index every collection has on _id:
\* a document whose _id is in the collection is refused with E11000.
isDuplicateNoIndex(d, e) == FALSE

isDuplicate(d, e) == d[e] > 0

\* The collection after documents W were written.
insert(d, W) == [e \in DOMAIN d |-> IF e \in W THEN d[e] + 1 ELSE d[e]]

\* The documents of the batch refused as duplicates.
duplicates(d, batch) == {e \in Range(batch) : isDuplicate(d, e)}

\* An unordered insertMany writes every document that is no duplicate and
\* that the server neither refuses nor fails to reach.
written(d, batch, refused) ==
    (Range(batch) \ duplicates(d, batch)) \ refused

\* The error of an unordered insertMany that reached the server: none when
\* every document was written, else one MongoBulkWriteError for all the
\* write errors, carrying the code of the first.
insertManyError(d, batch, refused) ==
    LET failing == {k \in DOMAIN batch : batch[k] \notin written(d, batch, refused)}
        first == CHOOSE k \in failing : \A j \in failing : k <= j
    IN  IF failing = {} THEN NoError
        ELSE MongoBulkWriteError(IF isDuplicate(d, batch[first]) THEN E11000 ELSE 0)

\* bulkInsert: insertMany in try/catch; TRUE when the promise resolves.
bulkInsertRethrowsAll(error) == error = NoError

bulkInsert(error) ==
    \/ error = NoError
    \/ error.code = E11000
    \/ error.name = "MongoBulkWriteError"

\* ------------------------------------------------------------ validation
\* The event types of @martech/types.
EventType == {"session_start", "page_view", "search", "purchase", "add_to_cart",
              "remove_from_cart", "button_click", "form_submit", "video_play",
              "video_pause"}

\* The value of a field of a request body: "undefined" is a field that is
\* not there, "number" is a value that is not a string, anything else is
\* that string.
typeof(v) == IF v \in {"undefined", "number"} THEN v ELSE "string"
falsy(v) == v \in {"undefined", ""}
DateStrings == {"2024-01-15T10:30:00Z"}     \* the strings new Date() can parse

\* validateRawEvent: the message of the ValidationError, or "null".
validateRawEventNoEnum(rawEvent) ==
    IF falsy(rawEvent.userId) \/ typeof(rawEvent.userId) # "string"
    THEN "Missing or invalid required field: userId"
    ELSE IF falsy(rawEvent.sessionId) \/ typeof(rawEvent.sessionId) # "string"
    THEN "Missing or invalid required field: sessionId"
    ELSE IF falsy(rawEvent.type) \/ typeof(rawEvent.type) # "string"
    THEN "Missing or invalid required field: type"
    ELSE "null"

validateRawEvent(rawEvent) ==
    IF falsy(rawEvent.userId) \/ typeof(rawEvent.userId) # "string"
    THEN "Missing or invalid required field: userId"
    ELSE IF falsy(rawEvent.sessionId) \/ typeof(rawEvent.sessionId) # "string"
    THEN "Missing or invalid required field: sessionId"
    ELSE IF falsy(rawEvent.type) \/ typeof(rawEvent.type) # "string"
    THEN "Missing or invalid required field: type"
    ELSE IF rawEvent.type \notin EventType
    THEN "Invalid event type"
    ELSE "null"

\* normalizeEvent(rawEvent).occurredAt: new Date(rawEvent.occurredAt) if
\* the field is truthy, the current time if not.
occurredAt(rawEvent) ==
    IF falsy(rawEvent.occurredAt) THEN "now"
    ELSE IF rawEvent.occurredAt \in DateStrings \/ rawEvent.occurredAt = "number"
    THEN rawEvent.occurredAt
    ELSE "Invalid Date"

\* The loop of ingestEvent answers 400 for this event.
answers400(rawEvent) ==
    \/ validateRawEvent(rawEvent) # "null"
    \/ occurredAt(rawEvent) = "Invalid Date"       \* isNaN(occurredAt.getTime())

\* The position of the first event of the body the loop refuses, 0 if none.
firstRefused(body) ==
    IF \E k \in DOMAIN body : answers400(body[k])
    THEN CHOOSE k \in DOMAIN body :
             answers400(body[k]) /\ \A j \in 1..(k - 1) : ~answers400(body[j])
    ELSE 0

\* Request bodies: a valid event, and events with one field wrong.
Good == [userId |-> "user123", sessionId |-> "session456", type |-> "page_view",
         occurredAt |-> "undefined"]
RawEvents == {Good,
              [Good EXCEPT !.occurredAt = "2024-01-15T10:30:00Z"],
              [Good EXCEPT !.userId = "undefined"],
              [Good EXCEPT !.sessionId = "number"],
              [Good EXCEPT !.type = ""],
              [Good EXCEPT !.type = "INVALID_TYPE"],
              [Good EXCEPT !.occurredAt = "invalid-date"]}
Bodies == UNION {[1..m -> RawEvents] : m \in 1..MaxReq}

\* An event the validation is to refuse: userId, sessionId or type missing
\* or not a string, a type that is no event type, an occurredAt that does
\* not parse.
FailsValidation(rawEvent) ==
    \/ rawEvent.userId \in {"undefined", "number"}
    \/ rawEvent.sessionId \in {"undefined", "number"}
    \/ rawEvent.type \in {"undefined", "number"}
    \/ rawEvent.type \notin EventType
    \/ rawEvent.occurredAt \notin DateStrings \cup {"undefined"}

\* ------------------------------------------------------------------ Init
Init ==
    /\ buffer = <<>>
    /\ flushTimer = "null"
    /\ timerLeft = 0
    /\ idle = 0
    /\ age = [e \in 1..MaxEvents |-> 0]
    /\ isFlushingInProgress = FALSE
    /\ flights = <<>>
    /\ dropped = {}
    /\ accepted = <<>>
    /\ failsLeft = MaxFail
    /\ db = [e \in 1..MaxEvents |-> 0]
    /\ nextId = 1
    /\ acked = {}
    /\ ret = "none"
    /\ req = <<>>
    /\ stats = <<>>
    /\ settled = <<>>
    /\ ffpc = [i \in FFCallers |-> "idle"]
    /\ ffEntry = [i \in FFCallers |-> [need |-> 0, owed |-> 0]]
    /\ sdpc = [i \in FFCallers |-> "idle"]
    /\ listening = TRUE
    /\ dbState = "connected"
    /\ exitCode = Running

\* `await ingestionService.forceFlush()` in gracefulShutdown: the code
\* after it runs once that call has resolved.
forceFlushNotAwaited(s) == ffpc[s] # "idle"

forceFlushAwaited(s) == ffpc[s] = "done"

\* No continuation is queued as a microtask.
MicrotasksDrained ==
    \A i \in FFCallers :
        /\ ffpc[i] # "resume"
        /\ ~(sdpc[i] = "flushing" /\ forceFlushAwaited(i))

\* The step is no call with a return value and settles no bulkInsert call.
Quiet == ret' = "none" /\ settled' = <<>> /\ req' = <<>> /\ stats' = <<>>

\* A macrotask can be taken: the process is alive and the microtask queue is empty.
Ready == exitCode = Running /\ MicrotasksDrained


\* ------------------------------------------------------- service actions
\* A direct call of addEvent (as the service tests make it).
AddEvent ==
    /\ Ready
    /\ nextId <= MaxEvents
    /\ SetSvc(addEvent(Svc, nextId))
    /\ nextId' = nextId + 1
    /\ Quiet
    /\ ffEntry' = CountCalls
    /\ UNCHANGED <<acked, stoVars, ffpc, sdVars>>

\* events.map(e => addEvent(e)): addEvent has no await, so the calls run
\* back to back inside the request handler.
RECURSIVE addEvents(_, _, _)
addEvents(s, first, n) ==
    IF n = 0 THEN s ELSE addEvents(addEvent(s, first), first + 1, n - 1)

\* EventsController.ingestEvent: the backpressure check, the loop that
\* validates and normalizes every event and returns 400 at the first one
\* refused, then addEvent for each event and the 202 response.
ingestEvent(body) ==
    /\ Ready
    /\ IF ~canAcceptEvent(buffer)
       THEN /\ ret' = "429"
            /\ UNCHANGED <<svcVars, nextId, acked>>
       ELSE IF firstRefused(body) # 0
       THEN /\ ret' = "400"
            /\ UNCHANGED <<svcVars, nextId, acked>>
       ELSE /\ nextId + Len(body) - 1 <= MaxEvents
            /\ SetSvc(addEvents(Svc, nextId, Len(body)))
            /\ nextId' = nextId + Len(body)
            /\ acked' = acked \cup (nextId .. nextId + Len(body) - 1)
            /\ ret' = "202"
    /\ settled' = <<>>
    /\ ffEntry' = CountCalls
    /\ UNCHANGED <<stoVars, ffpc, sdVars>>

\* A request of n valid events.  Requests keep arriving on open keep-alive
\* connections after server.close().
IngestEvent(n) ==
    /\ nextId + n - 1 <= MaxEvents
    /\ ingestEvent([k \in 1..n |-> Good])
    /\ req' = <<>>
    /\ stats' = <<>>

\* A request with any body; the step records which of its events are to
\* be refused.
PostEvents(body) ==
    /\ ingestEvent(body)
    /\ req' = [k \in DOMAIN body |-> FailsValidation(body[k])]
    /\ stats' = <<>>

\* A call of canAcceptEvent() on its own.
CanAcceptEvent ==
    /\ Ready
    /\ ret' = IF canAcceptEvent(buffer) THEN "true" ELSE "false"
    /\ settled' = <<>>
    /\ req' = <<>>
    /\ stats' = <<>>
    /\ UNCHANGED <<svcVars, nextId, acked, stoVars, ffVars, sdVars>>

\* getStats(): the snapshot.  bufferUtilization is a quotient of integers
\* times 100; it is kept as the fraction num / den.
getStats(s) ==
    [bufferSize |-> Len(s.buffer),
     isFlushingInProgress |-> s.isFlushingInProgress,
     maxBufferSize |-> maxBufferSize,
     emergencyThreshold |-> emergencyThreshold,
     bufferUtilization |-> [num |-> Len(s.buffer) * 100, den |-> maxBufferSize]]

\* A call of getStats().
GetStats ==
    /\ Ready
    /\ stats' = <<getStats(Svc)>>
    /\ ret' = "none"
    /\ settled' = <<>>
    /\ req' = <<>>
    /\ UNCHANGED <<svcVars, nextId, acked, stoVars, ffVars, sdVars>>

\* The setTimeout callback armed by resetFlushTimer.
timerCallbackNoFlush(s) == s

timerCallback(s) ==
    IF Len(s.buffer) > 0 /\ ~s.isFlushingInProgress
    THEN flush(s, Background)
    ELSE s

TimerFire ==
    /\ Ready
    /\ flushTimer = "pending"
    /\ SetSvc(timerCallback([Svc EXCEPT !.flushTimer = "fired", !.timerLeft = 0]))
    /\ Quiet
    /\ ffEntry' = CountCalls
    /\ UNCHANGED <<nextId, acked, stoVars, ffpc, sdVars>>

\* The timer expires when its interval has passed.
TimerDue == timerLeft = 0 /\ TimerFire

\* One tick of the clock.  A timer that has expired runs its callback
\* before more time passes.
Tick ==
    /\ Ready
    /\ ~(flushTimer = "pending" /\ timerLeft = 0)
    /\ timerLeft' = IF flushTimer = "pending" THEN timerLeft - 1 ELSE timerLeft
    /\ idle' = Min(idle + 1, flushIntervalMs + 1)
    /\ age' = [e \in DOMAIN age |->
                 IF e \in Range(buffer) THEN Min(age[e] + 1, flushIntervalMs + 1)
                 ELSE age[e]]
    /\ Quiet
    /\ UNCHANGED <<buffer, flushTimer, isFlushingInProgress, flights, dropped,
                   stoVars, reqVars, ffVars, sdVars>>

\* flush() after `await bulkInsert(batch)` settled: catch and finally.
flushSettleNoTimer(s, k, ok) ==
    [s EXCEPT
        !.buffer = IF ok THEN @ ELSE requeue(@, s.flights[k].batch),
        !.isFlushingInProgress = FALSE,
        !.idle = 0,
        !.flights = RemoveAt(@, k)]

flushSettleNoRelease(s, k, ok) ==
    resetFlushTimer(
        [s EXCEPT
            !.buffer = IF ok THEN @ ELSE requeue(@, s.flights[k].batch),
            !.isFlushingInProgress = ~ok,
            !.idle = 0,
            !.flights = RemoveAt(@, k)])

flushSettle(s, k, ok) ==
    resetFlushTimer(
        [s EXCEPT
            !.buffer = IF ok THEN @ ELSE requeue(@, s.flights[k].batch),
            !.isFlushingInProgress = FALSE,
            !.idle = 0,
            !.flights = RemoveAt(@, k)])

\* The caller awaiting this flush() is resumed by a microtask.
ResumeOwner(k) ==
    ffpc' = IF flights[k].owner \in FFCallers
            THEN [ffpc EXCEPT ![flights[k].owner] = "resume"]
            ELSE ffpc

\* bulkInsert resolves.
FlushSucceeds(k) ==
    /\ Ready
    /\ k \in DOMAIN flights
    /\ insertManyError(db, flights[k].batch, {}) = NoError
    /\ SetSvc(flushSettle(Svc, k, TRUE))
    /\ accepted' = Append(accepted, flights[k].batch)
    /\ db' = insert(db, Range(flights[k].batch))
    /\ ResumeOwner(k)
    /\ ret' = "none"
    /\ req' = <<>>
    /\ stats' = <<>>
    /\ settled' = <<[flight |-> flights[k], ok |-> TRUE, error |-> NoError,
                     written |-> Range(flights[k].batch), dups |-> {},
                     present |-> {e \in Range(flights[k].batch) : db[e] > 0}]>>
    /\ UNCHANGED <<failsLeft, nextId, acked, ffEntry, sdVars>>

\* bulkInsert rejects.
FlushFails(k) ==
    /\ Ready
    /\ k \in DOMAIN flights
    /\ failsLeft > 0
    /\ SetSvc(flushSettle(Svc, k, FALSE))
    /\ failsLeft' = failsLeft - 1
    /\ ResumeOwner(k)
    /\ ret' = "none"
    /\ req' = <<>>
    /\ stats' = <<>>
    /\ settled' = <<[flight |-> flights[k], ok |-> FALSE,
                     error |-> MongoNetworkError, written |-> {}, dups |-> {},
                     present |-> {e \in Range(flights[k].batch) : db[e] > 0}]>>
    /\ UNCHANGED <<accepted, db, nextId, acked, ffEntry, sdVars>>

\* insertMany throws MongoBulkWriteError: the server refused some documents,
\* the duplicates and those in `refused` (a validator of the collection, a
\* document over the size limit), and wrote the others.
BulkWriteError(k, refused) ==
    /\ Ready
    /\ k \in DOMAIN flights
    /\ refused \subseteq Range(flights[k].batch) \ duplicates(db, flights[k].batch)
    /\ refused # {} => failsLeft > 0
    /\ LET batch == flights[k].batch
           error == insertManyError(db, batch, refused)
       IN  /\ error # NoError
           /\ SetSvc(flushSettle(Svc, k, bulkInsert(error)))
           /\ accepted' = IF bulkInsert(error) THEN Append(accepted, batch) ELSE accepted
           /\ db' = insert(db, written(db, batch, refused))
           /\ settled' = <<[flight |-> flights[k], ok |-> bulkInsert(error),
                            error |-> error,
                            written |-> written(db, batch, refused),
                            dups |-> duplicates(db, batch),
                            present |-> {e \in Range(batch) : db[e] > 0}]>>
    /\ failsLeft' = IF refused # {} THEN failsLeft - 1 ELSE failsLeft
    /\ ResumeOwner(k)
    /\ ret' = "none"
    /\ req' = <<>>
    /\ stats' = <<>>
    /\ UNCHANGED <<nextId, acked, ffEntry, sdVars>>

\* The connection is lost (or the operation times out) after the server
\* wrote part of the batch: insertMany throws a network error.
ConnectionLost(k, unreached) ==
    /\ Ready
    /\ k \in DOMAIN flights
    /\ failsLeft > 0
    /\ unreached \subseteq Range(flights[k].batch)
    /\ LET batch == flights[k].batch
       IN  /\ written(db, batch, unreached) # {}
           /\ SetSvc(flushSettle(Svc, k, bulkInsert(MongoNetworkError)))
           /\ accepted' = IF bulkInsert(MongoNetworkError)
                          THEN Append(accepted, batch) ELSE accepted
           /\ db' = insert(db, written(db, batch, unreached))
           /\ settled' = <<[flight |-> flights[k], ok |-> bulkInsert(MongoNetworkError),
                            error |-> MongoNetworkError,
                            written |-> written(db, batch, unreached),
                            dups |-> {},
                            present |-> {e \in Range(batch) : db[e] > 0}]>>
    /\ failsLeft' = failsLeft - 1
    /\ ResumeOwner(k)
    /\ ret' = "none"
    /\ req' = <<>>
    /\ stats' = <<>>
    /\ UNCHANGED <<nextId, acked, ffEntry, sdVars>>

\* ------------------------------------------------------------ forceFlush
\* The condition of the outer while loop of forceFlush.
drainContinuesFullBatchOnly(buf) == Len(buf) >= maxBufferSize

drainContinues(buf) == Len(buf) > 0

\* forceFlush from the head of its outer loop to its next suspension:
\* "wait" is the 100 ms sleep of the inner loop, "flush" is `await
\* this.flush()` with a bulkInsert call outstanding, "done" is the return.
forceFlushLoop(s, i) ==
    IF drainContinues(s.buffer)
    THEN IF s.isFlushingInProgress
         THEN [svc |-> s, pc |-> "wait"]
         ELSE [svc |-> flush(s, i), pc |-> "flush"]
    ELSE [svc |-> s, pc |-> "done"]

\* The call of forceFlush: clear the timer, enter the loop.
forceFlushEnter(i) ==
    LET r == forceFlushLoop([Svc EXCEPT !.flushTimer = "null", !.timerLeft = 0], i)
    IN  /\ ffpc[i] = "idle"
        /\ SetSvc(r.svc)
        /\ ffpc' = [ffpc EXCEPT ![i] = r.pc]
        /\ ffEntry' = [CountCalls EXCEPT
                          ![i] = [need |-> Batches(Len(buffer)),
                                  owed |-> Monus(Batches(Len(buffer)), NewCalls)]]

\* A direct call of forceFlush (as the service tests make it).
ForceFlushCall(i) ==
    /\ Ready
    /\ \A s \in FFCallers : sdpc[s] = "idle"
    /\ forceFlushEnter(i)
    /\ Quiet
    /\ UNCHANGED <<nextId, acked, stoVars, sdVars>>

\* The 100 ms sleep ends with the flag clear (with the flag set the inner
\* loop sleeps again and nothing changes): flush() is called and awaited.
FFWake(i) ==
    /\ Ready
    /\ ffpc[i] = "wait"
    /\ ~isFlushingInProgress
    /\ SetSvc(flush(Svc, i))
    /\ ffpc' = [ffpc EXCEPT ![i] = IF flushProceeds(Svc) THEN "flush" ELSE "resume"]
    /\ Quiet
    /\ ffEntry' = CountCalls
    /\ UNCHANGED <<nextId, acked, stoVars, sdVars>>

\* The continuation after `await this.flush()`: back to the loop head.
FFResume(i) ==
    /\ exitCode = Running
    /\ ffpc[i] = "resume"
    /\ LET r == forceFlushLoop(Svc, i)
       IN  /\ SetSvc(r.svc)
           /\ ffpc' = [ffpc EXCEPT ![i] = r.pc]
    /\ Quiet
    /\ ffEntry' = CountCalls
    /\ UNCHANGED <<nextId, acked, stoVars, sdVars>>

\* ------------------------------------------------------ gracefulShutdown
\* A signal handler calls gracefulShutdown: server.close() and the 10 s timer.
Signal(s) ==
    /\ Ready
    /\ sdpc[s] = "idle"
    /\ sdpc' = [sdpc EXCEPT ![s] = "closing"]
    /\ listening' = FALSE
    /\ Quiet
    /\ UNCHANGED <<svcVars, stoVars, nextId, acked, ffVars, dbState, exitCode>>

\* The close callback or the timeout resolves the promise; forceFlush is called.
ShutdownFlush(s) ==
    /\ Ready
    /\ sdpc[s] = "closing"
    /\ forceFlushEnter(s)
    /\ sdpc' = [sdpc EXCEPT ![s] = "flushing"]
    /\ Quiet
    /\ UNCHANGED <<stoVars, nextId, acked, listening, dbState, exitCode>>

\* After `await forceFlush()`: close the connection if readyState is 1,
\* otherwise go straight to process.exit(0).
ShutdownCloseDb(s) ==
    /\ exitCode = Running
    /\ sdpc[s] = "flushing"
    /\ forceFlushAwaited(s)
    /\ IF dbState = "connected"
       THEN /\ dbState' = "disconnecting"
            /\ sdpc' = [sdpc EXCEPT ![s] = "dbclose"]
            /\ UNCHANGED exitCode
       ELSE /\ exitCode' = 0
            /\ sdpc' = [sdpc EXCEPT ![s] = "exited"]
            /\ UNCHANGED dbState
    /\ Quiet
    /\ UNCHANGED <<svcVars, stoVars, nextId, acked, ffVars, listening>>

\* connection.close() settles: exit 0, or exit 1 from the catch block.
ShutdownExit(s, closed) ==
    /\ Ready
    /\ sdpc[s] = "dbclose"
    /\ dbState' = "disconnected"
    /\ exitCode' = IF closed THEN 0 ELSE 1
    /\ sdpc' = [sdpc EXCEPT ![s] = "exited"]
    /\ Quiet
    /\ UNCHANGED <<svcVars, stoVars, nextId, acked, ffVars, listening>>

\* -------------------------------------------------------- specifications
\* What the event loop does on its own once work is outstanding.
PipelineStep ==
    \/ TimerFire
    \/ \E k \in 1..maxConcurrentFlushes + 1 : FlushSucceeds(k)
    \/ \E k \in 1..maxConcurrentFlushes + 1 : FlushFails(k)
    \/ \E i \in FFCallers : FFWake(i)
    \/ \E i \in FFCallers : FFResume(i)

\* The service driven through its public methods, as its tests drive it.
Next ==
    \/ AddEvent
    \/ CanAcceptEvent
    \/ \E i \in FFCallers : ForceFlushCall(i)
    \/ PipelineStep

Spec == Init /\ [][Next]_vars

\* The same with the scheduling Node.js gives: a pending timer fires, an
\* outstanding bulkInsert settles, a queued continuation runs.  The sleeping
\* drain loop polls every 100 ms and the flush timer needs 1000 ms, so a
\* loop that finds the flag clear again and again does get to run (strong
\* fairness).  Storage succeeds for good after at most MaxFail rejections.
Fairness ==
    /\ WF_vars(TimerFire)
    /\ WF_vars(\E k \in 1..maxConcurrentFlushes + 1 : FlushSucceeds(k))
    /\ \A i \in FFCallers : SF_vars(FFWake(i))
    /\ \A i \in FFCallers : WF_vars(FFResume(i))

LiveSpec == Spec /\ Fairness

\* The running application: events arrive through POST /events and
\* forceFlush is called by gracefulShutdown.
NextApp ==
    \/ \E n \in 1..MaxReq : IngestEvent(n)
    \/ PipelineStep
    \/ \E s \in FFCallers : Signal(s)
    \/ \E s \in FFCallers : ShutdownFlush(s)
    \/ \E s \in FFCallers : ShutdownCloseDb(s)
    \/ \E s \in FFCallers, closed \in BOOLEAN : ShutdownExit(s, closed)

AppSpec == Init /\ [][NextApp]_vars

\* The service with the clock: the timer callback runs when flushIntervalMs
\* have passed since the timer was armed, not before.
NextTimed ==
    \/ AddEvent
    \/ Tick
    \/ TimerDue
    \/ \E k \in 1..maxConcurrentFlushes + 1 : FlushSucceeds(k)
    \/ \E k \in 1..maxConcurrentFlushes + 1 : FlushFails(k)
    \/ \E i \in FFCallers : ForceFlushCall(i)
    \/ \E i \in FFCallers : FFWake(i)
    \/ \E i \in FFCallers : FFResume(i)

TimedSpec == Init /\ [][NextTimed]_vars

\* The same with the scheduling Node.js gives: time passes, a timer that
\* is due runs its callback, an outstanding bulkInsert settles, storage
\* succeeds for good after at most MaxFail rejections, the sleeping drain
\* loop gets to run.
TimedFairness ==
    /\ WF_vars(Tick)
    /\ WF_vars(TimerDue)
    /\ WF_vars(\E k \in 1..maxConcurrentFlushes + 1 : FlushSucceeds(k))
    /\ \A i \in FFCallers : SF_vars(FFWake(i))
    /\ \A i \in FFCallers : WF_vars(FFResume(i))

\* The timed service with one caller of forceFlush, under that scheduling.
NextRetry ==
    \/ AddEvent
    \/ Tick
    \/ TimerDue
    \/ \E k \in 1..maxConcurrentFlushes + 1 : FlushSucceeds(k)
    \/ \E k \in 1..maxConcurrentFlushes + 1 : FlushFails(k)
    \/ ForceFlushCall(1)
    \/ FFWake(1)
    \/ FFResume(1)

RetrySpec == Init /\ [][NextRetry]_vars /\ TimedFairness

\* addEvent calls, then forceFlush with no addEvent call after it (as the
\* test of forceFlush drives the service).
AddEventBeforeDrain ==
    /\ \A i \in FFCallers : ffpc[i] = "idle"
    /\ AddEvent

NextDrain ==
    \/ AddEventBeforeDrain
    \/ \E i \in FFCallers : ForceFlushCall(i)
    \/ PipelineStep

DrainSpec == Init /\ [][NextDrain]_vars

\* The pipeline from POST /events to the events collection, with every
\* outcome insertMany has: to the service a call only resolves or rejects
\* (FlushSucceeds, FlushFails); here the collection is followed as well.
NextStore ==
    \/ \E n \in 1..MaxReq : IngestEvent(n)
    \/ TimerFire
    \/ \E k \in 1..maxConcurrentFlushes + 1 : FlushSucceeds(k)
    \/ \E k \in 1..maxConcurrentFlushes + 1 : FlushFails(k)
    \/ \E k \in 1..maxConcurrentFlushes + 1, refused \in SUBSET (1..MaxEvents) :
          BulkWriteError(k, refused)
    \/ \E k \in 1..maxConcurrentFlushes + 1, unreached \in SUBSET (1..MaxEvents) :
          ConnectionLost(k, unreached)

StoreSpec == Init /\ [][NextStore]_vars

\* POST /events with any body, storage answering every call.
NextApi ==
    \/ \E body \in Bodies : PostEvents(body)
    \/ TimerFire
    \/ \E k \in 1..maxConcurrentFlushes + 1 : FlushSucceeds(k)
    \/ \E k \in 1..maxConcurrentFlushes + 1 : FlushFails(k)

ApiSpec == Init /\ [][NextApi]_vars

\* The service with its statistics read at any moment.
NextStats ==
    \/ AddEvent
    \/ GetStats
    \/ TimerFire
    \/ \E k \in 1..maxConcurrentFlushes + 1 : FlushSucceeds(k)
    \/ \E k \in 1..maxConcurrentFlushes + 1 : FlushFails(k)

StatsSpec == Init /\ [][NextStats]_vars

\* ------------------------------------------------------------ vocabulary
Passed   == 1 .. (nextId - 1)               \* events passed to addEvent
Appended == Passed \ dropped                \* events addEvent put in the buffer
InFlight == Flatten([k \in DOMAIN flights |-> flights[k].batch])
Stored   == Flatten(accepted)               \* events of the calls that resolved
Draining(i) == ffpc[i] \in {"wait", "flush", "resume"}
IsAscending(s) == \A i, j \in DOMAIN s : i < j => s[i] < s[j]   \* in arrival order

\* ---------------------------------------------------------------- claims
\* C1 (No loss): after addEvent calls followed by forceFlush, every event
\* that was passed to addEvent ends up in a bulkInsert call that resolves.
\* Stated on the final result: once forceFlush has been called and every
\* call of it has resolved, with nothing buffered or outstanding (nothing
\* more will be sent unless a new event arrives), every event passed to
\* addEvent is in such a call.
C1_NoLoss ==
    (/\ \E i \in FFCallers : ffpc[i] = "done"
     /\ \A i \in FFCallers : ffpc[i] \in {"idle", "done"}
     /\ buffer = <<>> /\ flights = <<>>)
        => Passed \subseteq Range(Stored)

\* C2 (Event conservation): every event addEvent appended is in exactly
\* one place: the buffer, the batch of an outstanding bulkInsert call, or
\* the batch of a call that resolved; nothing else is in any of them.
C2_Conservation ==
    LET all == buffer \o InFlight \o Stored
    IN  /\ Range(all) = Appended
        /\ Len(all) = Cardinality(Appended)

C2_Witness ==
    /\ buffer # <<>> /\ flights # <<>> /\ accepted # <<>>
    /\ failsLeft < MaxFail

\* C3 (Admission refused is visible): an event that addEvent did not put in
\* the buffer because the buffer was at capacity is not an event whose id
\* went out in a 202 response.
C3_NoAckedEventDiscarded == acked \cap dropped = {}

\* C4 (Drain completeness): a forceFlush call made with N >= 1 batches
\* buffered resolves only with the buffer empty, no bulkInsert call
\* outstanding, and at least N bulkInsert calls made since it was called.
C4_DrainCompleteness ==
    [][\A i \in FFCallers :
          (ffpc[i] # "done" /\ ffpc'[i] = "done" /\ ffEntry'[i].need >= 1)
              => /\ buffer' = <<>>
                 /\ flights' = <<>>
                 /\ ffEntry'[i].owed = 0]_vars

C4_Witness ==
    \E i \in FFCallers :
        /\ ffpc[i] = "done" /\ ffEntry[i].need >= 2 /\ ffEntry[i].owed = 0
        /\ buffer = <<>> /\ flights = <<>>

\* C5 (Re-queue on failure), as claimed: after a failed bulkInsert of batch
\* B the buffer is B followed by exactly the events appended while the call
\* was outstanding.
C5_RequeueOnlyArrivals ==
    (settled # <<>> /\ ~settled[1].ok)
        => buffer = settled[1].flight.batch \o settled[1].flight.since

\* C5 as amended: after a failed bulkInsert of batch B the buffer is B,
\* then the events the extraction left in the buffer, then the events
\* appended while the call was outstanding; the next batch begins with B.
C5_RequeueAtHead ==
    (settled # <<>> /\ ~settled[1].ok)
        => LET f == settled[1].flight
           IN  /\ buffer = f.batch \o f.rest \o f.since
               /\ SubSeq(SpliceRemoved(buffer, maxBufferSize), 1, Len(f.batch))
                     = f.batch

C5_Witness ==
    /\ settled # <<>> /\ ~settled[1].ok
    /\ settled[1].flight.rest # <<>>
    /\ settled[1].flight.since # <<>>

\* C6 (Concurrency ceiling): at most maxConcurrentFlushes bulkInsert calls
\* are outstanding.
C6_ConcurrencyCeiling == Len(flights) <= maxConcurrentFlushes

C6_Witness ==
    /\ Len(flights) = maxConcurrentFlushes
    /\ Len(buffer) > maxBufferSize

\* C7 (Backpressure boundary): canAcceptEvent answers true exactly when the
\* buffer is shorter than backpressureThreshold, and the call changes
\* nothing of the service.
C7_BackpressureBoundary ==
    [][ret' \in {"true", "false"}
          => /\ (ret' = "true") <=> (Len(buffer) < backpressureThreshold)
             /\ UNCHANGED <<svcVars, stoVars, reqVars, ffVars, sdVars>>]_vars

C7_Witness ==
    /\ ret = "false"
    /\ Len(buffer) >= backpressureThreshold

\* C8 (Shutdown ordering): each gracefulShutdown call stops the server
\* before it calls forceFlush, closes the database connection or exits only
\* after its forceFlush call has resolved, and exits with code 0 only after
\* the connection was closed or found not open.
C8_ShutdownOrdering ==
    /\ \A s \in FFCallers :
          /\ sdpc[s] \in {"idle", "closing"} => ffpc[s] = "idle"
          /\ sdpc[s] # "idle" => ~listening
          /\ sdpc[s] \in {"dbclose", "exited"} => ffpc[s] = "done"
    /\ dbState # "connected" => \E s \in FFCallers : sdpc[s] \in {"dbclose", "exited"}
    /\ exitCode # Running => \E s \in FFCallers : sdpc[s] = "exited"
    /\ exitCode = 0 => dbState # "connected"

C8_Witness ==
    /\ exitCode = 0
    /\ dbState = "disconnected"
    /\ \E s \in FFCallers : sdpc[s] = "exited" /\ ffEntry[s].need >= 1

\* C9 (Drain termination): every call of forceFlush eventually resolves,
\* whatever the buffer length at the call.
C9_DrainTerminates ==
    \A i \in FFCallers : (ffpc[i] # "idle") ~> (ffpc[i] = "done")

C9_Witness ==
    \E i \in FFCallers : ffpc[i] = "done" /\ ffEntry[i].need > 1


\* C10 (Drain re-entrancy): while one forceFlush call is running, no
\* forceFlush call resolves with the buffer non-empty or a bulkInsert call
\* outstanding.
C10_ReentrantDrainWaits ==
    [][\A i, j \in FFCallers :
          (i # j /\ Draining(j) /\ ffpc[i] # "done" /\ ffpc'[i] = "done")
              => (buffer' = <<>> /\ flights' = <<>>)]_vars

\* C11 (Failure classification): a bulkInsert call resolves, so that flush
\* discards the batch, only if every event of the batch is in the
\* collection: written by this call or already there (a duplicate).  Any
\* other outcome rejects and the batch is re-queued.
C11_FailureClassification ==
    (settled # <<>> /\ settled[1].ok)
        => \A e \in Range(settled[1].flight.batch) : db[e] >= 1

\* C12 (Duplicates are success): when the only write errors of a call are
\* duplicate keys, bulkInsert resolves, the other events of the batch are
\* in the collection, and the batch is discarded, not re-queued.
C12_DuplicatesAreSuccess ==
    (/\ settled # <<>>
     /\ settled[1].dups # {}
     /\ settled[1].dups \cup settled[1].written = Range(settled[1].flight.batch))
        => /\ settled[1].ok
           /\ \A e \in settled[1].written : db[e] = 1
           /\ Range(settled[1].flight.batch) \cap Range(buffer) = {}
           /\ accepted # <<>> /\ accepted[Len(accepted)] = settled[1].flight.batch

C12_Witness ==
    /\ settled # <<>> /\ settled[1].ok
    /\ settled[1].dups # {} /\ settled[1].written # {}
    /\ settled[1].dups \cup settled[1].written = Range(settled[1].flight.batch)

\* C13 (Idempotent retry): when a batch some of whose events an earlier,
\* failed call had stored is submitted again and the call succeeds (no
\* error, or duplicate keys only), every event of it is in the collection
\* exactly once, as after one successful submission.
C13_IdempotentRetry ==
    (/\ settled # <<>> /\ settled[1].ok
     /\ settled[1].present # {}
     /\ settled[1].dups \cup settled[1].written = Range(settled[1].flight.batch))
        => \A e \in Range(settled[1].flight.batch) : db[e] = 1

C13_Witness ==
    /\ settled # <<>> /\ settled[1].ok
    /\ settled[1].present # {}
    /\ settled[1].dups # {} /\ settled[1].written # {}
    /\ Len(settled[1].flight.batch) = maxBufferSize

\* C14 (Ordering guarantee): events are handed to storage in the order
\* they were appended.  The batches of the resolved calls, then the batch
\* of the outstanding call, then the buffer, read as one sequence, are in
\* arrival order: of two appended events the earlier one is in the same
\* batch at an earlier position, or in a batch whose call started earlier,
\* or neither has been handed over yet.  (Event ids are given in arrival
\* order.  This covers the events of failed batches too.)
C14_ArrivalOrder == IsAscending(Stored \o InFlight \o buffer)

C14_Witness ==
    /\ Len(accepted) >= 2 /\ flights # <<>> /\ buffer # <<>>
    /\ failsLeft < MaxFail

\* C15 (Debounced time trigger): whenever the buffer is non-empty and no
\* flush is in flight, the timer is pending and expires no later than
\* flushIntervalMs after the most recent activity (the last addEvent call
\* or flush completion); the clock does not pass that moment before the
\* callback has run, and the callback starts a flush.
C15_DebouncedTimeTrigger ==
    [][(buffer # <<>> /\ ~isFlushingInProgress)
          => /\ flushTimer = "pending"
             /\ timerLeft + idle <= flushIntervalMs
             /\ idle' > idle => idle' <= flushIntervalMs
             /\ flushTimer' = "fired"
                   => /\ isFlushingInProgress'
                      /\ Len(flights') = Len(flights) + 1
                      /\ flights'[Len(flights')].batch
                            = SpliceRemoved(buffer, maxBufferSize)]_vars

C15_Witness ==
    /\ flushTimer = "fired" /\ idle = flushIntervalMs
    /\ flights # <<>> /\ Len(flights[1].batch) < maxBufferSize
    /\ failsLeft < MaxFail

\* C16 (Latency from arrival): an event that has been in the buffer for
\* flushIntervalMs since it arrived, with no flush in flight at that
\* moment, is handed to a flush before the clock moves on.  (While no
\* bulkInsert call has rejected, every buffered event is there since its
\* arrival; idle > 0: no call and no flush completion falls on the moment
\* of the deadline itself.)
C16_LatencyFromArrival ==
    [][\A e \in Range(buffer) :
          (/\ age[e] = flushIntervalMs
           /\ ~isFlushingInProgress /\ idle > 0
           /\ failsLeft = MaxFail)
              => age'[e] <= age[e]]_vars

\* C17 (Size trigger), as claimed: once exactly maxBufferSize events have
\* been added to the new service, with no bulkInsert call settled and
\* nothing else called, there is exactly one bulkInsert call outstanding,
\* its batch is those events in arrival order, and the buffer is empty.
C17_SizeTriggerAnySpacing ==
    (/\ nextId = maxBufferSize + 1
     /\ accepted = <<>> /\ failsLeft = MaxFail
     /\ \A i \in FFCallers : ffpc[i] = "idle")
        => /\ Len(flights) = 1
           /\ flights[1].batch = [k \in 1..maxBufferSize |-> k]
           /\ buffer = <<>>

\* C17 as amended: with no flush in flight, an addEvent call that brings
\* the buffer to maxBufferSize starts exactly one bulkInsert call, whose
\* batch is the whole buffer in arrival order, and leaves the buffer empty
\* with one call in flight; an addEvent call that leaves it shorter starts
\* none.  From an empty buffer these are the maxBufferSize events added,
\* provided no timer callback and no forceFlush ran in between.
C17_SizeTrigger ==
    [][(nextId' = nextId + 1 /\ flights = <<>> /\ ~isFlushingInProgress
        /\ Len(buffer) < maxBufferSize)
          => IF Len(buffer) + 1 < maxBufferSize
             THEN flights' = <<>> /\ buffer' = Append(buffer, nextId)
             ELSE /\ Len(flights') = 1
                  /\ flights'[1].batch = Append(buffer, nextId)
                  /\ buffer' = <<>>
                  /\ isFlushingInProgress']_vars

C17_Witness ==
    /\ Len(flights) = 1 /\ isFlushingInProgress
    /\ flights[1].batch = [k \in 1..maxBufferSize |-> k]
    /\ flights[1].owner = Background
    /\ buffer = <<>> /\ nextId = maxBufferSize + 1

\* The one event of the buffer was added by the latest addEvent call, and
\* flushIntervalMs have passed since with no addEvent call and no flush
\* completion (no bulkInsert call has rejected, so it was not re-queued).
AloneForInterval ==
    /\ Len(buffer) = 1 /\ buffer[1] = nextId - 1
    /\ age[buffer[1]] = flushIntervalMs /\ idle = flushIntervalMs
    /\ failsLeft = MaxFail

\* The timer is due and its callback starts one bulkInsert call with the
\* buffer as its batch, emptying the buffer.
TimerFlushesBuffer ==
    /\ flushTimer = "pending" /\ timerLeft = 0
    /\ flushTimer' = "fired"
          => /\ Len(flights') = Len(flights) + 1
             /\ flights'[Len(flights')].batch = buffer
             /\ buffer' = <<>>

\* A call that took the whole buffer resolves with nothing added since:
\* the buffer is empty afterwards.
EmptyAfterSuccess ==
    (/\ settled' # <<>> /\ settled'[1].ok
     /\ settled'[1].flight.rest = <<>> /\ settled'[1].flight.since = <<>>)
        => buffer' = <<>>

\* C18 (Time trigger), as claimed: one addEvent call on an empty buffer
\* followed by flushIntervalMs without a further addEvent call results in
\* exactly one bulkInsert call with exactly that event, and in an empty
\* buffer once the call has succeeded.
C18_TimeTriggerAnyStart ==
    [][(AloneForInterval => TimerFlushesBuffer) /\ EmptyAfterSuccess]_vars

\* C18 as amended: the same, starting with no flush in flight.
C18_TimeTrigger ==
    [][((AloneForInterval /\ ~isFlushingInProgress) => TimerFlushesBuffer)
       /\ EmptyAfterSuccess]_vars

C18_Witness ==
    /\ flushTimer = "fired" /\ idle = flushIntervalMs
    /\ Len(flights) = 1 /\ flights[1].batch = <<nextId - 1>>
    /\ flights[1].owner = Background
    /\ buffer = <<>> /\ failsLeft = MaxFail

\* C19 (addEvent never waits for storage): an addEvent call returns with
\* no bulkInsert call settled in it: the calls outstanding before it are
\* still outstanding, and so is the one it starts itself; and a call made
\* while a bulkInsert call is outstanding appends its event to the buffer.
C19_AddEventNeverWaits ==
    [][nextId' = nextId + 1
          => /\ settled' = <<>>
             /\ Len(flights') >= Len(flights)
             /\ \A k \in DOMAIN flights : flights'[k].batch = flights[k].batch
             /\ flights # <<>> => buffer' = Append(buffer, nextId)]_vars

C21_UtilizationOfThreshold ==
    [][stats' # <<>>
          => LET u == stats'[1].bufferUtilization
                 n == Len(buffer)
             IN  /\ \/ /\ u.num * backpressureThreshold = n * u.den
                        /\ (u.num >= u.den) <=> (n >= backpressureThreshold)
                    \/ /\ u.num * backpressureThreshold = 100 * n * u.den
                        /\ (u.num >= 100 * u.den) <=> (n >= backpressureThreshold)
                 /\ UNCHANGED <<svcVars, stoVars, reqVars, ffVars, sdVars>>]_vars

\* C22 (Drain with a flush already in flight): a forceFlush call does not
\* resolve, and gracefulShutdown does not go on to close the database
\* connection, while a bulkInsert call started by the size or the time
\* trigger is outstanding or events are in the buffer, whether or not the
\* buffer was empty when forceFlush was called.
C22_DrainWaitsForFlushInFlight ==
    [][(\/ \E i \in FFCallers : ffpc[i] # "done" /\ ffpc'[i] = "done"
        \/ dbState = "connected" /\ dbState' # "connected")
          => /\ \A k \in DOMAIN flights' : flights'[k].owner # Background
             /\ buffer' = <<>>]_vars

\* The bulkInsert call that settled in this step rejected.
FlushFailed == settled # <<>> /\ ~settled[1].ok

\* s begins with p.
IsPrefix(p, s) == Len(p) <= Len(s) /\ SubSeq(s, 1, Len(p)) = p

\* A step that is no call of addEvent or forceFlush.
NoCall == nextId' = nextId /\ \A i \in FFCallers : ffpc[i] = "idle" => ffpc'[i] = "idle"

\* C23 (Retry liveness): a failed flush leaves its batch at the head of
\* the buffer, the flag clear and the timer armed for flushIntervalMs.
\* From then on, as long as the batch waits with no flush in flight and
\* neither addEvent nor forceFlush is called, the timer stays pending, each
\* tick of the clock takes one tick off it, no time passes once it is due,
\* and any step that changes the buffer starts a flush whose batch begins
\* at the head of the buffer: the retry starts within flushIntervalMs of
\* the failure and contains the re-queued batch.  This does not depend on
\* how many calls have failed before, and once storage succeeds the buffer
\* becomes empty.
C23_RetryLiveness ==
    /\ [][/\ FlushFailed'
              => /\ IsPrefix(settled'[1].flight.batch, buffer')
                 /\ ~isFlushingInProgress'
                 /\ flushTimer' = "pending" /\ timerLeft' = flushIntervalMs
          /\ (buffer # <<>> /\ ~isFlushingInProgress /\ NoCall)
              => /\ flushTimer = "pending" /\ timerLeft <= flushIntervalMs
                 /\ \/ /\ buffer' = buffer /\ flights' = flights
                       /\ flushTimer' = "pending"
                       /\ timerLeft' = timerLeft - 1
                    \/ /\ Len(flights') = Len(flights) + 1
                       /\ flights'[Len(flights')].batch
                             = SpliceRemoved(buffer, maxBufferSize)
                       /\ buffer' = SpliceRest(buffer, maxBufferSize)]_vars
    /\ FlushFailed ~> (buffer = <<>>)

C23_Witness ==
    /\ failsLeft = 0 /\ accepted = <<>>
    /\ flushTimer = "fired" /\ idle = flushIntervalMs
    /\ Len(flights) = 1 /\ flights[1].owner = Background
    /\ IsAscending(flights[1].batch \o buffer) /\ buffer # <<>>

\* The flag is set exactly when one bulkInsert call is outstanding, and
\* never more than one is.
FlagCountsCalls ==
    /\ Len(flights) <= maxConcurrentFlushes
    /\ isFlushingInProgress <=> (Len(flights) = 1)

\* C24 (Flush-slot accounting): in every state the in-flight indicator
\* equals the number of outstanding bulkInsert calls (set: one, clear:
\* none), and every flush completion, success or failure, releases the
\* one slot and leaves the flush timer armed for flushIntervalMs.
C24_SlotAccounting ==
    [][/\ FlagCountsCalls /\ FlagCountsCalls'
       /\ settled' # <<>>
              => /\ isFlushingInProgress /\ ~isFlushingInProgress'
                 /\ Len(flights') = Len(flights) - 1
                 /\ flushTimer' = "pending" /\ timerLeft' = flushIntervalMs]_vars

C24_Witness ==
    /\ settled # <<>> /\ ~settled[1].ok /\ failsLeft = 0
    /\ settled[1].flight.owner \in FFCallers
    /\ ~isFlushingInProgress /\ flights = <<>> /\ flushTimer = "pending"

\* The buffer at the moment flush() extracts its batch in this step: in an
\* addEvent call that is after the push.
AtExtraction ==
    IF nextId' # nextId /\ Len(buffer) < emergencyThreshold
    THEN Append(buffer, nextId)
    ELSE buffer

\* C25 (Batch shape): a step in which flush() proceeds makes exactly one
\* bulkInsert call; its batch is non-empty, has at most maxBufferSize
\* events and is the oldest-first prefix of the buffer at the moment of
\* extraction, the rest staying in the buffer.  flush() invoked with the
\* buffer empty or with a flush in flight returns having changed nothing:
\* no bulkInsert call, same buffer, same indicator (the drain loop that
\* wakes to an empty buffer is such an invocation).
C25_BatchShape ==
    [][/\ Len(flights') > Len(flights)
              => LET batch == flights'[Len(flights')].batch
                 IN  /\ Len(flights') = Len(flights) + 1
                     /\ batch # <<>> /\ Len(batch) <= maxBufferSize
                     /\ batch = SpliceRemoved(AtExtraction, maxBufferSize)
                     /\ buffer' = SpliceRest(AtExtraction, maxBufferSize)
                     /\ batch \o buffer' = AtExtraction
       /\ (isFlushingInProgress \/ buffer = <<>>)
              => \A o \in FFCallers \cup {Background} : flush(Svc, o) = Svc
       /\ \A i \in FFCallers :
              (ffpc[i] = "wait" /\ ffpc'[i] = "resume")
                  => /\ buffer = <<>>
                     /\ UNCHANGED <<buffer, flights, isFlushingInProgress>>]_vars

C25_Witness ==
    /\ Len(flights) = 1 /\ flights[1].owner \in FFCallers
    /\ Len(flights[1].batch) = maxBufferSize
    /\ flights[1].rest # <<>> /\ buffer = flights[1].rest
    /\ failsLeft < MaxFail

\* C26 (Timer discipline): every addEvent call, whether it only appends,
\* also starts a size flush, or finds the buffer at capacity, leaves the
\* one flush timer pending, to fire flushIntervalMs after the call.
C26_AddEventArmsTimer ==
    [][nextId' = nextId + 1
          => flushTimer' = "pending" /\ timerLeft' = flushIntervalMs]_vars

\* C27 (Drain cancels the time trigger): once forceFlush has been called,
\* and with no addEvent call after it, no flush timer is pending, while
\* forceFlush runs and after it has resolved, and every bulkInsert call
\* started from then on is started by the drain loop.
C27_DrainCancelsTimer ==
    [][(\E i \in FFCallers : ffpc'[i] # "idle")
          => /\ flushTimer' # "pending"
             /\ Len(flights') > Len(flights)
                   => flights'[Len(flights')].owner \in FFCallers]_vars

\* The buffer holds at most emergencyThreshold events plus one batch for
\* every flush slot that is free (a batch in flight can come back).
BufferBound ==
    Len(buffer) <= emergencyThreshold
                     + maxBufferSize * (maxConcurrentFlushes - Len(flights))

\* C28 (Bounded buffer): the buffer never holds more than emergencyThreshold
\* + maxBufferSize x maxConcurrentFlushes events; addEvent does not append
\* when the length has reached emergencyThreshold; and a step that takes
\* the length above emergencyThreshold is the re-queueing of a failed batch.
C28_BoundedBuffer ==
    [][/\ BufferBound /\ BufferBound'
       /\ Len(buffer') <= emergencyThreshold + maxBufferSize * maxConcurrentFlushes
       /\ (nextId' = nextId + 1 /\ Len(buffer) >= emergencyThreshold)
              => buffer' = buffer
       /\ (Len(buffer') > emergencyThreshold /\ Len(buffer') > Len(buffer))
              => /\ settled' # <<>> /\ ~settled'[1].ok
                 /\ buffer' = settled'[1].flight.batch \o buffer]_vars

C28_Witness ==
    /\ Len(buffer) = emergencyThreshold + maxBufferSize * maxConcurrentFlushes
    /\ dropped = {} /\ flights = <<>>

\* C29 (No stranded events): whenever the buffer is non-empty and no flush
\* is in flight, a flush timer is pending or a forceFlush loop is active:
\* buffered events never wait without a future flush trigger.
C29_NoStrandedEvents ==
    (buffer # <<>> /\ ~isFlushingInProgress /\ flights = <<>>)
        => \/ flushTimer = "pending"
           \/ \E i \in FFCallers : Draining(i)

C29_Witness ==
    /\ Len(buffer) = emergencyThreshold /\ dropped # {}
    /\ ~isFlushingInProgress /\ flights = <<>>
    /\ flushTimer = "pending"
    /\ \A i \in FFCallers : ffpc[i] = "idle"

\* C30 (Strict arrival order with a single flush slot): the batches of the
\* bulkInsert calls that resolved, concatenated in completion order, are a
\* subsequence of the addEvent order (event ids are given in that order),
\* and an event is in that sequence only when every event appended before
\* it is: no event is persisted ahead of an earlier one, failed batches
\* included.
C30_StrictArrivalOrder ==
    /\ IsAscending(Stored)
    /\ Range(Stored) \subseteq Passed
    /\ \A e \in Range(Stored) :
          \A f \in Appended : f < e => f \in Range(Stored)

C30_Witness ==
    /\ settled # <<>> /\ settled[1].ok
    /\ failsLeft = 0 /\ Len(accepted) >= 2
    /\ buffer # <<>> /\ dropped = {}

====
